---- MODULE Spec2Model ----
(***************************************************************************)
(* VR Slideshow, Rev 2.1: panel sequencing and replacement transitions.    *)
(*                                                                         *)
(* Images are identified by the number n of their id `img${n}`.  An        *)
(* opacity is a fixed-point number: the integer o stands for o / OpScale.  *)
(* A value of Math.random() is k / RandDen for k in Rand.  Time is in      *)
(* milliseconds.  The browser runs one task at a time: a timer tick never  *)
(* interleaves with the animation-frame callbacks of one frame.            *)
(***************************************************************************)
EXTENDS Integers, Sequences, FiniteSets, TLC

\* ------------------------------------------------------------------ bounds
MaxImages == 10        \* images the file picker adds in one session
MaxTicks == 3          \* replacement ticks that fire in one run
MaxLoops == 2          \* fade loops waiting for the next animation frame

\* --------------------------------------------------------------- constants
VISIBLE_PANELS == 8
BAND_ELEVATION_DEG == 25
MIN_ANGULAR_SEPARATION_DEG == 28
\* the attempt budget of chooseSeparatedYaw
maxAttempts == 60
\* the duration of fadeOut and of fadeIn
FADE_MS == 600
\* opacities are counted in units of 1 / OpScale
OpScale == FADE_MS
\* null: no id was read, or no image was returned
NoImage == -1

VARIABLES
  metaList,          \* catalog: sequence of image ids, in insertion order
  nextAssetId,       \* counter of the ids handed to new images
  startDisabled,     \* startBtn.disabled
  uiPhase,           \* "controls" | "entering" | "vr"
  panelSrc,          \* per panel: the id in its curved-panel src attribute
  opacity,           \* per panel: mesh.material.opacity
  displayedSet,      \* Set of ids
  unusedSequencing,  \* array of metas (ids)
  replaceTimer,      \* TRUE while the setInterval timer is live
  rafQueue,          \* callbacks registered for the next animation frame
  pending,           \* callbacks of the current frame that have not run yet
  ticks,             \* number of ticks fired (bounded by MaxTicks)
  handed,            \* history: ids returned by pickNextMeta, in order
  everShown,         \* history: ids shown on some panel since the last buildPanels
  lastCb,            \* history: what the most recent callback did
  usedYaws,          \* array of the yaws (degrees) chosen in the present build
  placed,            \* per panel: the angles positionFromAngles returned, and how
  status,            \* statusEl.textContent: which message it shows
  texture,           \* per panel: what mesh.material.map holds
  loadErrs,          \* panels whose TextureLoader request has still to report its error
  unusedPool,        \* R1.4 to R1.9: array of metas (ids) still to be handed out
  refilledAt,        \* history (R1.4 to R1.9): length of `handed` at the last refill
  meshes,            \* the geometries curved-panel.init has built, with their arguments
  timerDelay,        \* the delay (ms) the live interval timer fires with; 0 before any
  liveTimers,        \* number of interval timers created and not cleared
  lateHandlers,      \* start handlers of a second click that still await their VR entry
  removed,           \* history: ids removeImage has taken out of the catalog
  probe              \* the last call of a pure helper: its name, arguments and result

vars == <<metaList, nextAssetId, startDisabled, uiPhase, panelSrc, opacity,
          displayedSet, unusedSequencing, replaceTimer, rafQueue, pending,
          ticks, handed, everShown, lastCb, usedYaws, placed, status,
          texture, loadErrs, unusedPool, refilledAt, meshes,
          timerDelay, liveTimers, lateHandlers, removed, probe>>

\* ----------------------------------------------------------------- helpers
Min(a, b) == IF a < b THEN a ELSE b
Max(a, b) == IF a > b THEN a ELSE b
Range(s) == {s[i] : i \in 1..Len(s)}
Count(s, x) == Cardinality({i \in 1..Len(s) : s[i] = x})

\* s without its i-th entry
RemoveAt(s, i) == SubSeq(s, 1, i - 1) \o SubSeq(s, i + 1, Len(s))

RECURSIVE FilterSeq(_, _)
\* Array.prototype.filter with the predicate "id is a member of keep"
FilterSeq(s, keep) ==
  IF s = <<>> THEN <<>>
  ELSE IF Head(s) \in keep THEN <<Head(s)>> \o FilterSeq(Tail(s), keep)
       ELSE FilterSeq(Tail(s), keep)

\* the values Math.random() takes: k / RandDen for k in Rand, that is 0 and 0.5
Rand == {0, 1}
RandDen == Cardinality(Rand)
\* Math.floor(Math.random() * n)
RandIndex(k, n) == (k * n) \div RandDen

\* SwapAt copying arr[j] to arr[i] without the exchange
SwapAtCopy(arr, i, j) == [arr EXCEPT ![i] = arr[j]]

\* the exchange [arr[i], arr[j]] = [arr[j], arr[i]]
SwapAt(arr, i, j) == [arr EXCEPT ![i] = arr[j], ![j] = arr[i]]

RECURSIVE ShuffleFrom(_, _, _)
\* the Fisher-Yates loop from (0-based) index i-1 down to 1; rs[i] is the draw of that step
ShuffleFrom(arr, i, rs) ==
  IF i < 2 THEN arr
  ELSE ShuffleFrom(SwapAt(arr, i, RandIndex(rs[i], i) + 1), i - 1, rs)

\* the results of shuffleArray(arr) when Math.random() draws from `draws`
ShuffleWith(arr, draws) ==
  {ShuffleFrom(arr, Len(arr), rs) : rs \in [2..Len(arr) -> draws]}

\* every result shuffleArray(arr) can give
ShuffleArray(arr) == ShuffleWith(arr, Rand)

\* The draws of the one shuffle of the whole catalog in buildPanels, in the
\* specification of the running slideshow.  The replacement engine treats all
\* image ids alike, so one order of the catalog stands for every order; the
\* specification of buildPanels alone (BuildSpec) draws from all of Rand.
CatalogDraws == {0}

\* --------------------------------------------------------------- placement
\* Angles are whole degrees.  The values Math.random() gives to one build are
\* a stream: draw number n (from 0) of a periodic pattern `pat` of numerators.
Abs(x) == IF x < 0 THEN -x ELSE x
Draw(pat, n) == pat[(n % Len(pat)) + 1]
\* v repeated n times
Rep(v, n) == [i \in 1..n |-> v]

\* a yaw draw k stands for Math.random() = k / YawDen
YawDen == 360
\* an elevation draw k stands for Math.random() = k / ElevDen
ElevDen == 2 * BAND_ELEVATION_DEG

\* randRange(a, b) when Math.random() is k / den
RandRange(a, b, k, den) == a + (k * (b - a)) \div den

\* the distance of the separation test without the wrap at 360 degrees
DiffNoWrap(yawDeg, used) == Abs(yawDeg - used)

\* `diff` of the separation test
Diff(yawDeg, used) == Abs(((yawDeg - used + 180 + 360) % 360) - 180)

\* the flag `ok` after the inner loop over usedYaws
Separated(yawDeg, used) ==
  \A i \in 1..Len(used) : ~(Diff(yawDeg, used[i]) < MIN_ANGULAR_SEPARATION_DEG)

\* AttemptsLeft with the test `attempt <= maxAttempts`
AttemptsLeftInclusive(attempt) == attempt <= maxAttempts

\* the loop condition `attempt < maxAttempts`
AttemptsLeft(attempt) == attempt < maxAttempts

RECURSIVE ChooseSeparatedYaw(_, _, _, _)
\* chooseSeparatedYaw from loop iteration `attempt` on, the yaws drawn being
\* pat[n], pat[n+1], ...: the yaw chosen, the number of draws made, whether the
\* fallback chose it, and the last candidate drawn inside the loop
ChooseSeparatedYaw(used, pat, n, attempt) ==
  IF AttemptsLeft(attempt)
  THEN LET yawDeg == RandRange(0, 360, Draw(pat, n), YawDen) IN
       IF Separated(yawDeg, used)
       THEN [yawDeg |-> yawDeg, draws |-> attempt + 1, fallback |-> FALSE, last |-> yawDeg]
       ELSE ChooseSeparatedYaw(used, pat, n + 1, attempt + 1)
  ELSE LET fallback == RandRange(0, 360, Draw(pat, n), YawDen) IN
       [yawDeg |-> fallback, draws |-> attempt + 1, fallback |-> TRUE,
        last |-> IF attempt > 0 THEN RandRange(0, 360, Draw(pat, n - 1), YawDen) ELSE fallback]

\* ElevationDeg drawing from twice the band
ElevationDegWide(k) == RandRange(-2 * BAND_ELEVATION_DEG, 2 * BAND_ELEVATION_DEG, k, ElevDen)

\* elevationDeg of positionFromAngles
ElevationDeg(k) == RandRange(-BAND_ELEVATION_DEG, BAND_ELEVATION_DEG, k, ElevDen)

\* positionFromAngles for the next panel: the angles it returns (yawDeg,
\* elevationDeg) with the record of how chooseSeparatedYaw came to the yaw
PositionFromAngles(used, stream, n) ==
  LET y == ChooseSeparatedYaw(used, stream.yaw, n, 0) IN
  [yawDeg |-> y.yawDeg, elevationDeg |-> ElevationDeg(Draw(stream.elev, Len(used))),
   draws |-> y.draws, fallback |-> y.fallback, last |-> y.last]

RECURSIVE PlacePanels(_, _, _, _)
\* the calls of createCurvedPanelForMeta of one build, as far as placement goes:
\* `count` panels are placed one after the other, each call pushing onto usedYaws
PlacePanels(ps, stream, n, count) ==
  IF Len(ps) >= count THEN ps
  ELSE LET pos == PositionFromAngles([i \in 1..Len(ps) |-> ps[i].yawDeg], stream, n) IN
       PlacePanels(Append(ps, pos), stream, n + pos.draws, count)

\* the yaw of four panels a quarter turn apart, then the same again
QuarterTurns == <<0, 90, 180, 270>>
\* eight yaws that are accepted one after the other, with two rejected
\* candidates (20 and, across the wrap at 360, 340) on the way
EightSeparated == <<0, 20, 50, 340, 100, 150, 200, 250, 300, 328>>
\* the candidates of the short patterns: two near misses of 0, one across the wrap
YawCands == {0, 20, 180, 340}
\* how often a pattern repeats one candidate: once, for a whole attempt loop,
\* or for a whole attempt loop and one draw more
RunLens == {1, maxAttempts, maxAttempts + 1}
\* the yaw patterns: one or two runs of a candidate, and the two patterns above
YawPatterns ==
  {Rep(a, m) : a \in YawCands, m \in RunLens}
  \cup {Rep(a, m) \o Rep(b, l) : a \in YawCands, b \in YawCands, m \in RunLens, l \in RunLens}
  \cup {QuarterTurns, EightSeparated}
\* the elevation patterns: the bottom of the band, its middle, and the draws
\* next to 1 alternating with the bottom
ElevPatterns == {<<0>>, <<BAND_ELEVATION_DEG>>, <<ElevDen - 1, 0>>}
\* every stream of draws of the placement
PlaceStreams == {[yaw |-> y, elev |-> e] : y \in YawPatterns, e \in ElevPatterns}
\* The stream of the specifications that are not about placement: the
\* replacement engine never reads a position, so one placement stands for all.
OneStream == {[yaw |-> EightSeparated, elev |-> <<BAND_ELEVATION_DEG>>]}

\* ------------------------------------------------------------- buildPanels
RECURSIVE FillPanelsFirst(_, _)
\* FillPanels reading shuffled[0] for every duplicate
FillPanelsFirst(ps, shuffled) ==
  IF Len(ps) >= VISIBLE_PANELS THEN ps
  ELSE FillPanelsFirst(Append(ps, shuffled[1]), shuffled)

\* buildPanels without its fill loop
FillPanelsNone(ps, shuffled) == ps

RECURSIVE FillPanels(_, _)
\* the while loop of buildPanels: duplicate until VISIBLE_PANELS panels exist
FillPanels(ps, shuffled) ==
  IF Len(ps) >= VISIBLE_PANELS THEN ps
  ELSE FillPanels(Append(ps, shuffled[(Len(ps) % Len(shuffled)) + 1]), shuffled)

\* InitialPanels reading shuffled[Math.max(0, i - 1)] in its first loop
InitialPanelsOffByOne(shuffled) ==
  [i \in 1..VISIBLE_PANELS |-> shuffled[((Max(1, i - 1) - 1) % Len(shuffled)) + 1]]

\* the panels built from one shuffled copy of the catalog
InitialPanels(shuffled) ==
  FillPanels(SubSeq(shuffled, 1, Min(VISIBLE_PANELS, Len(shuffled))), shuffled)

\* the unused pool before its shuffle: catalog entries that are not displayed
InitialUnused(list, shown) == FilterSeq(list, Range(list) \ shown)

Init ==
  /\ metaList = <<>>
  /\ nextAssetId = 0
  /\ startDisabled = FALSE
  /\ uiPhase = "controls"
  /\ panelSrc = <<>>
  /\ opacity = <<>>
  /\ displayedSet = {}
  /\ unusedSequencing = <<>>
  /\ replaceTimer = FALSE
  /\ rafQueue = <<>>
  /\ pending = <<>>
  /\ ticks = 0
  /\ handed = <<>>
  /\ everShown = {}
  /\ lastCb = [kind |-> "none", panel |-> 0, from |-> 0, el |-> 0, wrote |-> 0,
               swapped |-> FALSE, old |-> NoImage, new |-> NoImage, poolEmpty |-> FALSE]
  /\ usedYaws = <<>>
  /\ placed = <<>>
  /\ status = "none"
  /\ texture = <<>>
  /\ loadErrs = <<>>
  /\ unusedPool = <<>>
  /\ refilledAt = 0
  /\ meshes = <<>>
  /\ timerDelay = 0
  /\ liveTimers = 0
  /\ lateHandlers = 0
  /\ removed = {}
  /\ probe = [fn |-> "none"]

\* NewId numbering an image by its place in the catalog
NewIdByLength(next, list) == Len(list)

\* the number n of the id `img${nextAssetId++}`
NewId(next, list) == next

\* filePicker change handler, one file
AddImage ==
  /\ uiPhase = "controls"
  /\ nextAssetId < MaxImages
  /\ metaList' = Append(metaList, NewId(nextAssetId, metaList))
  /\ nextAssetId' = nextAssetId + 1
  /\ startDisabled' = (Len(metaList') < 1)
  /\ status' = "selected"
  /\ UNCHANGED <<uiPhase, panelSrc, opacity, displayedSet, unusedSequencing,
                 replaceTimer, rafQueue, pending, ticks, handed, everShown, lastCb,
                 usedYaws, placed,
                 texture, loadErrs, unusedPool, refilledAt, meshes,
                 timerDelay, liveTimers, lateHandlers, removed, probe>>

\* StartRejects letting every catalog through
StartRejectsNever(list) == FALSE

\* `if(!metaList.length)` of the start handler: nothing to show
StartRejects(list) == Len(list) = 0

\* startBtn click handler up to the setTimeout, buildPanels included;
\* `draws` are the values Math.random() gives to the shuffle of the catalog,
\* `streams` the streams of draws it can give to the placement
StartWith(draws, streams) ==
  /\ uiPhase = "controls"
  /\ ~startDisabled
  /\ IF StartRejects(metaList)
     THEN /\ status' = "selectFirst"
          /\ startDisabled' = FALSE
          /\ UNCHANGED <<uiPhase, panelSrc, opacity, displayedSet, unusedSequencing,
                         everShown, usedYaws, placed, texture, loadErrs>>
     ELSE /\ status' = "preparing"
          /\ startDisabled' = TRUE
          /\ uiPhase' = "entering"
          /\ loadErrs' = <<>>
          /\ IF metaList = <<>>
             THEN /\ panelSrc' = <<>>
                  /\ opacity' = <<>>
                  /\ displayedSet' = {}
                  /\ everShown' = {}
                  /\ unusedSequencing' = <<>>
                  /\ usedYaws' = <<>>
                  /\ placed' = <<>>
                  /\ texture' = <<>>
             ELSE \E shuffled \in ShuffleWith(metaList, draws) :
                    /\ panelSrc' = InitialPanels(shuffled)
                    /\ opacity' = [i \in 1..VISIBLE_PANELS |-> OpScale]
                    /\ texture' = [i \in 1..VISIBLE_PANELS |-> "image"]
                    /\ displayedSet' = Range(panelSrc')
                    /\ everShown' = Range(panelSrc')
                    /\ unusedSequencing' \in ShuffleArray(InitialUnused(metaList, displayedSet'))
                    /\ \E stream \in streams :
                         /\ placed' = PlacePanels(<<>>, stream, 0, VISIBLE_PANELS)
                         /\ usedYaws' = [i \in 1..VISIBLE_PANELS |-> placed'[i].yawDeg]
  /\ UNCHANGED <<metaList, nextAssetId, replaceTimer, rafQueue, pending, ticks,
                 handed, lastCb,
                 unusedPool, refilledAt, meshes,
                 timerDelay, liveTimers, lateHandlers, removed, probe>>

StartClick == StartWith(CatalogDraws, OneStream)

\* scene.enterVR() resolved: the replacement timer is set
\* The text of the replaceInterval field, by what parseFloat makes of it:
\* "nan" (empty or not a number), "inf" (Infinity), or "num", a number of
\* tenths of a second (ds).
Num(ds) == [kind |-> "num", ds |-> ds]
NotANumber == [kind |-> "nan", ds |-> 0]
Infinite == [kind |-> "inf", ds |-> 0]

\* the largest delay, in tenths of a second, whose milliseconds fit a signed
\* 32-bit integer: 2147483600 <= 2^31 - 1 < 2147483700
MaxDelayDs == 21474836

\* the field left at its default, "5"
DefaultInput == {Num(50)}

\* the texts tried: empty, zero, negative, below and at one second, fractional,
\* the default, the largest delay that fits 32 bits, the next one, Infinity
IntervalInputs ==
  {NotANumber, Infinite} \cup
  {Num(ds) : ds \in {-30, 0, 5, 10, 25, 50, MaxDelayDs, MaxDelayDs + 1}}

\* parseFloat(value) || 5
ParseOrDefault(in) ==
  IF in.kind = "nan" \/ (in.kind = "num" /\ in.ds = 0) THEN Num(50) ELSE in

\* const interval = Math.max(1, parseFloat(value) || 5), in seconds
Interval(in) ==
  LET v == ParseOrDefault(in) IN
  IF v.kind = "inf" THEN v ELSE Num(Max(10, v.ds))

\* The delay setInterval(fn, interval * 1000) runs with, in ms.  The browser
\* converts the delay to a signed 32-bit integer: a product above 2^31 - 1
\* (and below 2^32) becomes negative, Infinity becomes 0, and a negative or
\* zero delay fires without delay.
DelayMs(v) ==
  IF v.kind = "inf" \/ v.ds > MaxDelayDs THEN 0
  ELSE Max(0, v.ds * 100)

\* ClearPrevious leaving the previous timer running
ClearPreviousNever(handle, live) == live

\* `if(replaceTimer) clearInterval(replaceTimer)`: the timers left running
ClearPrevious(handle, live) == IF handle THEN live - 1 ELSE live

\* the end of the setTimeout callback: interval, clearInterval, setInterval,
\* status; `in` is the text of the replaceInterval field
SetTimer(in) ==
  /\ liveTimers' = ClearPrevious(replaceTimer, liveTimers) + 1
  /\ replaceTimer' = TRUE
  /\ timerDelay' = DelayMs(Interval(in))
  /\ probe' = [fn |-> "interval", input |-> in, delay |-> DelayMs(Interval(in)),
                cleared |-> replaceTimer]
  /\ status' = "running"

\* scene.enterVR() resolved, the field holding one of `inputs`
EnterVRWith(inputs) ==
  /\ uiPhase = "entering"
  /\ uiPhase' = "vr"
  /\ \E in \in inputs : SetTimer(in)
  /\ UNCHANGED <<metaList, nextAssetId, startDisabled, panelSrc, opacity,
                 displayedSet, unusedSequencing, rafQueue, pending, ticks,
                 handed, everShown, lastCb, usedYaws, placed,
                 texture, loadErrs, unusedPool, refilledAt, meshes,
                 lateHandlers, removed>>

EnterVROk == EnterVRWith(DefaultInput)

\* EnterVRFail setting the replacement interval all the same
EnterVRFailSetsTimer ==
  /\ uiPhase = "entering"
  /\ uiPhase' = "controls"
  /\ startDisabled' = FALSE
  /\ replaceTimer' = TRUE
  /\ liveTimers' = ClearPrevious(replaceTimer, liveTimers) + 1
  /\ UNCHANGED <<metaList, nextAssetId, panelSrc, opacity, displayedSet,
                 unusedSequencing, rafQueue, pending, ticks,
                 handed, everShown, lastCb, usedYaws, placed, status,
                 texture, loadErrs, unusedPool, refilledAt, meshes,
                 timerDelay, lateHandlers, removed, probe>>

\* scene.enterVR() rejected: the controls come back
EnterVRFail ==
  /\ uiPhase = "entering"
  /\ uiPhase' = "controls"
  /\ startDisabled' = FALSE
  /\ UNCHANGED <<metaList, nextAssetId, panelSrc, opacity, displayedSet,
                 unusedSequencing, replaceTimer, rafQueue, pending, ticks,
                 handed, everShown, lastCb, usedYaws, placed, status,
                 texture, loadErrs, unusedPool, refilledAt, meshes,
                 timerDelay, liveTimers, lateHandlers, removed, probe>>

\* ---------------------------------------------------------- replaceOnePanel
\* FadeOutOpacity without Math.max(0, ...)
FadeOutOpacityNoClamp(from, el) == (from * (FADE_MS - el)) \div FADE_MS

\* the value fadeOut writes: Math.max(0, from * (1 - t)), t = el / 600
FadeOutOpacity(from, el) == Max(0, (from * (FADE_MS - el)) \div FADE_MS)

\* the value fadeIn writes: Math.min(1, ti), ti = el / 600
FadeInOpacity(el) == Min(OpScale, (el * OpScale) \div FADE_MS)

\* FadeContinues with the test `t < 0.5`
FadeContinuesHalf(el) == 2 * el < FADE_MS

\* FadeContinues registering the next frame whatever t is
FadeContinuesAlways(el) == TRUE

\* `if(t < 1) requestAnimationFrame(...)`: the loop goes on
FadeContinues(el) == el < FADE_MS

\* the id the regular expression reads from the panel's curved-panel attribute.
\* getAttribute is taken to give back the string `src: #imgK` that line 417
\* (or line 303) set; an A-Frame build that gives back the parsed component
\* data makes String(cp) unmatchable and oldMetaId null, a case left out here.
OldMetaId(p) == panelSrc[p]

\* pickNextMeta ignoring the pool and returning the last catalog entry
PickNextMetaLast(unused, displayed, list) ==
  {[next |-> list[Len(list)], unused |-> unused]}

\* pickNextMeta going straight to its random fallback
PickNextMetaRandom(unused, displayed, list) ==
  {[next |-> list[RandIndex(k, Len(list)) + 1], unused |-> unused] : k \in Rand}

\* pickNextMeta: every (image returned, unusedSequencing left) it can give
PickNextMeta(unused, displayed, list) ==
  IF Len(unused) > 0
  THEN {[next |-> Head(unused), unused |-> Tail(unused)]}
  ELSE LET notDisplayed == FilterSeq(list, Range(list) \ displayed) IN
       IF Len(notDisplayed) > 0
       THEN {[next |-> s[1], unused |-> unused] : s \in ShuffleArray(notDisplayed)}
       ELSE IF list = <<>>
            THEN {[next |-> NoImage, unused |-> unused]}
            ELSE {[next |-> list[RandIndex(k, Len(list)) + 1], unused |-> unused] : k \in Rand}

\* displayedSet after "remove old, add new"
UpdateDisplayed(displayed, old, next) ==
  (displayed \ {old}) \cup (IF next = NoImage THEN {} ELSE {next})

\* PushBackOld without the push
PushBackOldDropped(unused, old, next, list) == {unused}

\* unusedSequencing after the old image is pushed back, with the occasional shuffle
PushBackOld(unused, old, next, list) ==
  IF old # NoImage /\ old \in Range(list) /\ old # next
  THEN LET u == Append(unused, old) IN
       IF Len(u) > 1
       THEN UNION {IF 4 * k < RandDen THEN ShuffleArray(u) ELSE {u} : k \in Rand}
       ELSE {u}
  ELSE {unused}

\* the time from one animation frame to the next: half a fade, or a whole
\* fade when the page stalls
FrameDts == {FADE_MS \div 2, FADE_MS}
\* past t = 1 both fades write the same value whatever the time, so el saturates
ElCap == 2 * FADE_MS

\* the setInterval callback: replaceOnePanel up to the first, synchronous fadeOut(start);
\* `counted` says whether the run is one of at most MaxTicks ticks
TickStep(counted) ==
  /\ replaceTimer
  /\ pending = <<>>
  /\ counted => ticks < MaxTicks
  /\ Len(rafQueue) < MaxLoops
  /\ Len(panelSrc) > 0 /\ Len(metaList) > 0
  /\ \E k \in Rand :
       LET idx == RandIndex(k, Len(panelSrc)) + 1
           from == opacity[idx]
       IN /\ opacity' = [opacity EXCEPT ![idx] = FadeOutOpacity(from, 0)]
          /\ rafQueue' = Append(rafQueue, [panel |-> idx, kind |-> "out", from |-> from, el |-> 0])
  /\ ticks' = IF counted THEN ticks + 1 ELSE ticks
  /\ UNCHANGED <<metaList, nextAssetId, startDisabled, uiPhase, panelSrc,
                 displayedSet, unusedSequencing, replaceTimer, pending, handed, everShown, lastCb,
                 usedYaws, placed, status,
                 texture, loadErrs, unusedPool, refilledAt, meshes,
                 timerDelay, liveTimers, lateHandlers, removed, probe>>

Tick == TickStep(TRUE)

\* the browser starts an animation frame: every registered callback will run with its timestamp
FrameBegin ==
  /\ pending = <<>>
  /\ rafQueue # <<>>
  /\ \E dt \in FrameDts :
       pending' = [i \in 1..Len(rafQueue) |->
                     [rafQueue[i] EXCEPT !.el = Min(ElCap, @ + dt)]]
  /\ rafQueue' = <<>>
  /\ UNCHANGED <<metaList, nextAssetId, startDisabled, uiPhase, panelSrc, opacity,
                 displayedSet, unusedSequencing, replaceTimer, ticks, handed, everShown, lastCb,
                 usedYaws, placed, status,
                 texture, loadErrs, unusedPool, refilledAt, meshes,
                 timerDelay, liveTimers, lateHandlers, removed, probe>>

\* setAttribute('curved-panel', `src: #${nextMeta.id}`) changing every panel
SwapSrcAll(src, p, next) == [i \in 1..Len(src) |-> next]

\* old.setAttribute('curved-panel', `src: #${nextMeta.id}`) on panel p, guarded
\* by `nextMeta && nextMeta.id`
SwapSrc(src, p, next) == IF next = NoImage THEN src ELSE [src EXCEPT ![p] = next]

\* The ways loadTexture(src) can go: "ok", the DOM path finds the <img> and
\* puts its texture on the material at once; "fail", no element answers the
\* selector, the TextureLoader request is made and will report an error.
LoadOutcomes == {"ok", "fail"}

\* curved-panel.update calls loadTexture only when the src has changed
LoadsTexture(oldSrc, next) == next # NoImage /\ next # oldSrc

\* material.map of panel p right after loadTexture returned
LoadTexture(tex, p, load) == IF load = "ok" THEN [tex EXCEPT ![p] = "image"] ELSE tex

\* the error callback leaving the material as it is
ErrorCallbackKeeps(tex, p) == tex

\* the error callback of loader.load: the generated placeholder becomes the map
ErrorCallback(tex, p) == [tex EXCEPT ![p] = "placeholder"]

\* one call of fadeOut(now) from the frame, the swap and the first fadeIn(startIn) included;
\* `hist` says whether the history variables handed and lastCb record it
\* and `loads` which outcomes of loadTexture the swap can meet
FadeOutStep(hist, loads) ==
  /\ pending # <<>>
  /\ Head(pending).kind = "out"
  /\ LET cb == Head(pending)
         p == cb.panel
         w == FadeOutOpacity(cb.from, cb.el)
     IN IF FadeContinues(cb.el)
        THEN /\ opacity' = [opacity EXCEPT ![p] = w]
             /\ rafQueue' = Append(rafQueue, cb)
             /\ lastCb' = IF ~hist THEN lastCb
                          ELSE [kind |-> "out", panel |-> p, from |-> cb.from, el |-> cb.el,
                                wrote |-> w, swapped |-> FALSE, old |-> NoImage, new |-> NoImage,
                                poolEmpty |-> FALSE]
             /\ UNCHANGED <<panelSrc, displayedSet, unusedSequencing, handed, everShown,
                            texture, loadErrs>>
        ELSE \E pick \in PickNextMeta(unusedSequencing, displayedSet, metaList) :
               LET old == OldMetaId(p) IN
               /\ displayedSet' = UpdateDisplayed(displayedSet, old, pick.next)
               /\ unusedSequencing' \in PushBackOld(pick.unused, old, pick.next, metaList)
               /\ panelSrc' = SwapSrc(panelSrc, p, pick.next)
               /\ IF LoadsTexture(panelSrc[p], pick.next)
                  THEN \E load \in loads :
                         /\ texture' = LoadTexture(texture, p, load)
                         /\ loadErrs' = IF load = "fail" THEN Append(loadErrs, p) ELSE loadErrs
                  ELSE UNCHANGED <<texture, loadErrs>>
               /\ opacity' = [opacity EXCEPT ![p] = FadeInOpacity(0)]
               /\ rafQueue' = Append(rafQueue, [panel |-> p, kind |-> "in", from |-> 0, el |-> 0])
               /\ handed' = IF hist THEN Append(handed, pick.next) ELSE handed
               /\ everShown' = everShown \cup (IF pick.next = NoImage THEN {} ELSE {pick.next})
               /\ lastCb' = IF ~hist THEN lastCb
                            ELSE [kind |-> "out", panel |-> p, from |-> cb.from, el |-> cb.el,
                                  wrote |-> w, swapped |-> TRUE, old |-> old, new |-> pick.next,
                                  poolEmpty |-> (unusedSequencing = <<>>)]
  /\ pending' = Tail(pending)
  /\ UNCHANGED <<metaList, nextAssetId, startDisabled, uiPhase, replaceTimer, ticks,
                 usedYaws, placed, status,
                 unusedPool, refilledAt, meshes,
                 timerDelay, liveTimers, lateHandlers, removed, probe>>

FadeOutFrame == FadeOutStep(TRUE, {"ok"})

\* one call of fadeIn(nowIn) from the frame
FadeInStep(hist) ==
  /\ pending # <<>>
  /\ Head(pending).kind = "in"
  /\ LET cb == Head(pending)
         p == cb.panel
         w == FadeInOpacity(cb.el)
     IN /\ opacity' = [opacity EXCEPT ![p] = w]
        /\ rafQueue' = IF FadeContinues(cb.el) THEN Append(rafQueue, cb) ELSE rafQueue
        /\ lastCb' = IF ~hist THEN lastCb
                     ELSE [kind |-> "in", panel |-> p, from |-> cb.from, el |-> cb.el,
                           wrote |-> w, swapped |-> FALSE, old |-> NoImage, new |-> NoImage,
                                poolEmpty |-> FALSE]
  /\ pending' = Tail(pending)
  /\ UNCHANGED <<metaList, nextAssetId, startDisabled, uiPhase, panelSrc,
                 displayedSet, unusedSequencing, replaceTimer, ticks, handed, everShown,
                 usedYaws, placed, status,
                 texture, loadErrs, unusedPool, refilledAt, meshes,
                 timerDelay, liveTimers, lateHandlers, removed, probe>>

FadeInFrame == FadeInStep(TRUE)

\* BeforeUnload throwing away the callbacks registered for the next frame as well
BeforeUnloadDropsFrames ==
  /\ replaceTimer
  /\ replaceTimer' = FALSE
  /\ liveTimers' = ClearPrevious(replaceTimer, liveTimers)
  /\ rafQueue' = <<>>
  /\ lastCb' = [kind |-> "unload", panel |-> 0, from |-> 0, el |-> 0, wrote |-> 0,
                swapped |-> FALSE, old |-> NoImage, new |-> NoImage, poolEmpty |-> FALSE]
  /\ UNCHANGED <<metaList, nextAssetId, startDisabled, uiPhase, panelSrc, opacity,
                 displayedSet, unusedSequencing, pending, ticks, handed,
                 everShown, usedYaws, placed, status,
                 texture, loadErrs, unusedPool, refilledAt, meshes,
                 timerDelay, lateHandlers, removed, probe>>

\* the beforeunload handler: clearInterval(replaceTimer) when a timer was set;
\* frames can still arrive until the page is gone
BeforeUnload ==
  /\ replaceTimer
  /\ replaceTimer' = FALSE
  /\ liveTimers' = ClearPrevious(replaceTimer, liveTimers)
  /\ lastCb' = [kind |-> "unload", panel |-> 0, from |-> 0, el |-> 0, wrote |-> 0,
                swapped |-> FALSE, old |-> NoImage, new |-> NoImage, poolEmpty |-> FALSE]
  /\ UNCHANGED <<metaList, nextAssetId, startDisabled, uiPhase, panelSrc, opacity,
                 displayedSet, unusedSequencing, rafQueue, pending, ticks, handed,
                 everShown, usedYaws, placed, status,
                 texture, loadErrs, unusedPool, refilledAt, meshes,
                 timerDelay, lateHandlers, removed, probe>>

Next ==
  \/ AddImage
  \/ StartClick
  \/ EnterVROk
  \/ EnterVRFail
  \/ Tick
  \/ FrameBegin
  \/ FadeOutFrame
  \/ FadeInFrame

Spec == Init /\ [][Next]_vars

\* ------------------------------------------------- buildPanels on its own
\* start clicked with a catalog of any size, the shuffle drawing from all of Rand
StartAnyShuffle == StartWith(Rand, OneStream)

BuildNext ==
  \/ AddImage
  \/ StartAnyShuffle

BuildSpec == Init /\ [][BuildNext]_vars

\* --------------------------------------------------- placement on its own
\* start clicked, the placement drawing from every stream of PlaceStreams
StartPlaced == StartWith(CatalogDraws, PlaceStreams)

PlaceNext ==
  \/ AddImage
  \/ StartPlaced

PlaceSpec == Init /\ [][PlaceNext]_vars

\* ------------------------------- files still being converted after the start
\* The change handler of the file picker awaits the conversion of each file
\* (lines 121-133), so a start click can come between two files of a batch:
\* the later files are pushed onto metaList after buildPanels has run.
AddImageLate ==
  /\ uiPhase = "entering"
  /\ nextAssetId < MaxImages
  /\ metaList' = Append(metaList, NewId(nextAssetId, metaList))
  /\ nextAssetId' = nextAssetId + 1
  /\ startDisabled' = (Len(metaList') < 1)
  /\ status' = "selected"
  /\ UNCHANGED <<uiPhase, panelSrc, opacity, displayedSet, unusedSequencing,
                 replaceTimer, rafQueue, pending, ticks, handed, everShown, lastCb,
                 usedYaws, placed,
                 texture, loadErrs, unusedPool, refilledAt, meshes,
                 timerDelay, liveTimers, lateHandlers, removed, probe>>

LateNext ==
  \/ AddImage
  \/ AddImageLate
  \/ StartClick
  \/ EnterVROk
  \/ Tick
  \/ FrameBegin
  \/ FadeOutFrame
  \/ FadeInFrame

LateSpec == Init /\ [][LateNext]_vars

\* ------------------------------------------------- the page being unloaded
UnloadNext ==
  \/ AddImage
  \/ StartClick
  \/ EnterVROk
  \/ Tick
  \/ FrameBegin
  \/ FadeOutFrame
  \/ FadeInFrame
  \/ BeforeUnload

UnloadSpec == Init /\ [][UnloadNext]_vars

\* ------------------------------------------ animation frames keep arriving
\* The slideshow of Spec with the scheduling of requestAnimationFrame: while a
\* callback is registered a frame comes, and every callback of a frame runs.
FairSpec ==
  /\ Init
  /\ [][Next]_vars
  /\ WF_vars(FrameBegin)
  /\ WF_vars(FadeOutFrame)
  /\ WF_vars(FadeInFrame)

\* ------------------------------------------------ textures failing to load
\* the swap meeting either outcome of loadTexture
FadeOutLoad == FadeOutStep(TRUE, LoadOutcomes)

\* a TextureLoader request reports its error, in a task of its own between frames
LoaderError ==
  /\ pending = <<>>
  /\ \E i \in 1..Len(loadErrs) :
       /\ texture' = ErrorCallback(texture, loadErrs[i])
       /\ loadErrs' = RemoveAt(loadErrs, i)
  /\ UNCHANGED <<metaList, nextAssetId, startDisabled, uiPhase, panelSrc, opacity,
                 displayedSet, unusedSequencing, replaceTimer, rafQueue, pending, ticks,
                 handed, everShown, lastCb, usedYaws, placed, status,
                 unusedPool, refilledAt, meshes,
                 timerDelay, liveTimers, lateHandlers, removed, probe>>

TextureNext ==
  \/ AddImage
  \/ StartClick
  \/ EnterVROk
  \/ Tick
  \/ FrameBegin
  \/ FadeOutLoad
  \/ FadeInFrame
  \/ LoaderError

\* frames keep arriving and a failing request does report its error
TextureSpec ==
  /\ Init
  /\ [][TextureNext]_vars
  /\ WF_vars(FrameBegin)
  /\ WF_vars(FadeOutLoad)
  /\ WF_vars(FadeInFrame)
  /\ WF_vars(LoaderError)

\* ------------------------------ the unusedPool engine of R1.4 to R1.9
\* The revisions before Rev 2.1 sequence with one array, unusedPool; their
\* start handler, placement and fade loops are those of Rev 2.1.

\* the fill loop of buildPanels: metaList[Math.floor(Math.random()*metaList.length)]
\* until VISIBLE_PANELS panels exist; pat is the periodic pattern of its draws
FillRandom(ps, list, pat) ==
  [i \in 1..VISIBLE_PANELS |->
     IF i <= Len(ps) THEN ps[i]
     ELSE list[RandIndex(Draw(pat, i - Len(ps) - 1), Len(list)) + 1]]

\* the patterns the fill loop draws from: constant, and alternating
FillPatterns == {<<0>>, <<1>>, <<0, 1>>}

\* shuffleArray on the refilled pool, Math.random() giving one value throughout
\* the shuffle: two orders stand for all, the engine treating all ids alike
RefillOrders(list) ==
  {ShuffleFrom(list, Len(list), [i \in 2..Len(list) |-> k]) : k \in Rand}

\* PoolNeedsRefill refilling at every tick
PoolNeedsRefillAlways(pool) == TRUE

\* `if(unusedPool.length === 0)` at the head of replaceOnePanel
PoolNeedsRefill(pool) == Len(pool) = 0

\* the start click of R1.9, buildPanels included
StartR19 ==
  /\ uiPhase = "controls"
  /\ ~startDisabled
  /\ IF StartRejects(metaList)
     THEN /\ status' = "selectFirst"
          /\ startDisabled' = FALSE
          /\ UNCHANGED <<uiPhase, panelSrc, opacity, texture, unusedPool, handed,
                         refilledAt, usedYaws, placed>>
     ELSE /\ status' = "preparing"
          /\ startDisabled' = TRUE
          /\ uiPhase' = "entering"
          /\ \E shuffled \in ShuffleWith(metaList, CatalogDraws) :
               LET n == Min(VISIBLE_PANELS, Len(shuffled))
                   first == SubSeq(shuffled, 1, n)
               IN /\ unusedPool' = SubSeq(shuffled, n + 1, Len(shuffled))
                  /\ handed' = first
                  /\ \E pat \in FillPatterns :
                       panelSrc' = FillRandom(first, metaList, pat)
          /\ refilledAt' = 0
          /\ opacity' = [i \in 1..VISIBLE_PANELS |-> OpScale]
          /\ texture' = [i \in 1..VISIBLE_PANELS |-> "image"]
          /\ \E stream \in OneStream :
               /\ placed' = PlacePanels(<<>>, stream, 0, VISIBLE_PANELS)
               /\ usedYaws' = [i \in 1..VISIBLE_PANELS |-> placed'[i].yawDeg]
  /\ UNCHANGED <<metaList, nextAssetId, displayedSet, unusedSequencing, replaceTimer,
                 rafQueue, pending, ticks, everShown, lastCb, loadErrs, meshes,
                 timerDelay, liveTimers, lateHandlers, removed, probe>>

\* the setInterval callback of R1.9: the refill, then replaceOnePanel up to the
\* first, synchronous fadeOut(start)
TickR19 ==
  /\ replaceTimer
  /\ pending = <<>>
  /\ ticks < MaxTicks
  /\ Len(rafQueue) < MaxLoops
  /\ Len(panelSrc) > 0 /\ Len(metaList) > 0
  /\ IF PoolNeedsRefill(unusedPool)
     THEN /\ unusedPool' \in RefillOrders(metaList)
          /\ refilledAt' = Len(handed)
     ELSE UNCHANGED <<unusedPool, refilledAt>>
  /\ \E k \in Rand :
       LET idx == RandIndex(k, Len(panelSrc)) + 1
           from == opacity[idx]
       IN /\ opacity' = [opacity EXCEPT ![idx] = FadeOutOpacity(from, 0)]
          /\ rafQueue' = Append(rafQueue, [panel |-> idx, kind |-> "out", from |-> from, el |-> 0])
  /\ ticks' = ticks + 1
  /\ UNCHANGED <<metaList, nextAssetId, startDisabled, uiPhase, panelSrc,
                 displayedSet, unusedSequencing, replaceTimer, pending, handed, everShown, lastCb,
                 usedYaws, placed, status, texture, loadErrs, meshes,
                 timerDelay, liveTimers, lateHandlers, removed, probe>>

\* one call of fadeOut(now) of R1.9 from the frame.  At t >= 1 it shifts the
\* pool; on an empty pool `next` is undefined and `next.id` throws: the callback
\* ends there, with the opacity written and no fadeIn started.
FadeOutR19 ==
  /\ pending # <<>>
  /\ Head(pending).kind = "out"
  /\ LET cb == Head(pending)
         p == cb.panel
         w == FadeOutOpacity(cb.from, cb.el)
         rec == [kind |-> "out", panel |-> p, from |-> cb.from, el |-> cb.el,
                 wrote |-> w, swapped |-> FALSE, old |-> NoImage, new |-> NoImage,
                 poolEmpty |-> FALSE]
     IN IF FadeContinues(cb.el)
        THEN /\ opacity' = [opacity EXCEPT ![p] = w]
             /\ rafQueue' = Append(rafQueue, cb)
             /\ lastCb' = rec
             /\ UNCHANGED <<panelSrc, unusedPool, handed>>
        ELSE IF unusedPool = <<>>
             THEN /\ opacity' = [opacity EXCEPT ![p] = w]
                  /\ lastCb' = [rec EXCEPT !.poolEmpty = TRUE]
                  /\ UNCHANGED <<panelSrc, unusedPool, handed, rafQueue>>
             ELSE LET next == Head(unusedPool) IN
                  /\ unusedPool' = Tail(unusedPool)
                  /\ panelSrc' = [panelSrc EXCEPT ![p] = next]
                  /\ opacity' = [opacity EXCEPT ![p] = FadeInOpacity(0)]
                  /\ rafQueue' = Append(rafQueue, [panel |-> p, kind |-> "in", from |-> 0, el |-> 0])
                  /\ handed' = Append(handed, next)
                  /\ lastCb' = [rec EXCEPT !.swapped = TRUE, !.old = panelSrc[p], !.new = next]
  /\ pending' = Tail(pending)
  /\ UNCHANGED <<metaList, nextAssetId, startDisabled, uiPhase, displayedSet,
                 unusedSequencing, replaceTimer, ticks, everShown, usedYaws, placed, status,
                 texture, loadErrs, refilledAt, meshes,
                 timerDelay, liveTimers, lateHandlers, removed, probe>>

PoolNext ==
  \/ AddImage
  \/ StartR19
  \/ EnterVROk
  \/ EnterVRFail
  \/ TickR19
  \/ FrameBegin
  \/ FadeOutR19
  \/ FadeInFrame

PoolSpec == Init /\ [][PoolNext]_vars

\* --------------------------------------------- the curved-panel geometry
\* Lengths, angles (radians) and the values of sin and cos are fixed-point
\* numbers in units of 1 / GeoScale.  Math.sin and Math.cos are their Taylor
\* polynomials of degree 3 and 4, exact to the unit on the angles a panel
\* bends by (at most pi / 6 on either side).
MaxMeshes == 2         \* geometries built in one run
GeoScale == 1000
Pi == 3142
Sin(a) == a - ((((a * a) \div GeoScale) * a) \div (6 * GeoScale))
Cos(a) ==
  LET a2 == (a * a) \div GeoScale IN
  GeoScale - (a2 \div 2) + ((a2 * a2) \div (24 * GeoScale))

\* the values of the schema fields the builds are given
Widths == {1200, 2400}
Heights == {800}
Curvatures == {0, 600, 1500}
SegmentsW == {2, 6}
SegmentsH == {0, 2}
Srcs == {0, 1}

\* segW and segH
SegW(data) == Max(4, data.segmentsW)
SegH(data) == Max(1, data.segmentsH)

\* the vertices of new THREE.PlaneGeometry(width, height, segW, segH), row by
\* row from the top: a flat grid centred on the origin
PlaneGeometry(width, height, segW, segH) ==
  [i \in 1..((segW + 1) * (segH + 1)) |->
     LET ix == (i - 1) % (segW + 1)
         iy == (i - 1) \div (segW + 1)
     IN [x |-> (ix * width) \div segW - width \div 2,
         y |-> height \div 2 - (iy * height) \div segH,
         z |-> 0]]

\* bend, arc and radius
Bend(data) == Max(0, Min(GeoScale, data.curvature))
Arc(data) == (Bend(data) * Pi) \div (3 * GeoScale)
Radius(data) == IF Arc(data) > 0 THEN (data.width * GeoScale) \div Arc(data) ELSE 1000 * GeoScale

\* Bent taking the curved branch for every arc
BentAlways(arc) == TRUE

\* `if(arc > 0)`: the vertex is bent
Bent(arc) == arc > 0

\* the body of the loop over the vertices, for the vertex v of the flat grid
BendVertex(data, v) ==
  IF Bent(Arc(data))
  THEN LET t == ((v.x + data.width \div 2) * GeoScale) \div data.width
           angle == ((t - GeoScale \div 2) * Arc(data)) \div GeoScale
       IN [x |-> (Sin(angle) * Radius(data)) \div GeoScale,
           y |-> v.y,
           z |-> Radius(data) - (Cos(angle) * Radius(data)) \div GeoScale]
  ELSE [x |-> v.x, y |-> v.y, z |-> 0]

\* CurvedPanelInit pushing the panel back by the number of its image
CurvedPanelInitBySrc(data) ==
  LET geom == PlaneGeometry(data.width, data.height, SegW(data), SegH(data)) IN
  [i \in 1..Len(geom) |-> [BendVertex(data, geom[i]) EXCEPT !.z = @ + data.src]]

\* init of the curved-panel component: the vertex positions of its geometry
CurvedPanelInit(data) ==
  LET geom == PlaneGeometry(data.width, data.height, SegW(data), SegH(data)) IN
  [i \in 1..Len(geom) |-> BendVertex(data, geom[i])]

\* an entity gets the curved-panel component: init runs on its data
BuildGeometry ==
  /\ Len(meshes) < MaxMeshes
  /\ \E w \in Widths, h \in Heights, c \in Curvatures,
        sw \in SegmentsW, sh \in SegmentsH, src \in Srcs :
       LET data == [width |-> w, height |-> h, curvature |-> c,
                    segmentsW |-> sw, segmentsH |-> sh, src |-> src]
       IN meshes' = Append(meshes, [data |-> data, verts |-> CurvedPanelInit(data)])
  /\ UNCHANGED <<metaList, nextAssetId, startDisabled, uiPhase, panelSrc, opacity,
                 displayedSet, unusedSequencing, replaceTimer, rafQueue, pending, ticks,
                 handed, everShown, lastCb, usedYaws, placed, status,
                 texture, loadErrs, unusedPool, refilledAt,
                 timerDelay, liveTimers, lateHandlers, removed, probe>>

GeomNext == BuildGeometry

GeomSpec == Init /\ [][GeomNext]_vars

\* ------------------------------------------- the replacement interval
\* scene.enterVR() resolved, the replaceInterval field holding any of the texts tried
EnterVRAnyInterval == EnterVRWith(IntervalInputs)

IntervalNext ==
  \/ AddImage
  \/ StartClick
  \/ EnterVRAnyInterval
  \/ EnterVRFail

IntervalSpec == Init /\ [][IntervalNext]_vars

\* ------------------------------- a second start, and images being removed
\* While a start handler awaits waitForAssetsLoaded() the controls are still
\* shown and the button is disabled, but removeImage (line 108) and the end of
\* a file batch (line 135) enable it again: a second click starts a second
\* handler.  Both handlers build the panels, hide the controls and try to
\* enter VR in turn; a handler whose entry fails shows the controls again,
\* also when the other one has set the timer.
MaxLateHandlers == 1
MaxRemovals == 2

\* s without the entries equal to x
Without(s, x) == FilterSeq(s, Range(s) \ {x})

\* removeImage leaving the pools as they are
RemoveFromPoolsNever(pool, id) == pool

\* `unusedSequencing.filter(m => m.id !== meta.id)`
RemoveFromPools(pool, id) == Without(pool, id)

\* removeImage(index), from the remove button of a thumbnail
RemoveImage ==
  /\ uiPhase = "controls"
  /\ Cardinality(removed) < MaxRemovals
  /\ \E index \in 1..Len(metaList) :
       LET id == metaList[index] IN
       /\ metaList' = RemoveAt(metaList, index)
       /\ unusedSequencing' = RemoveFromPools(unusedSequencing, id)
       /\ displayedSet' = displayedSet \ {id}
       /\ removed' = removed \cup {id}
  /\ status' = "selected"
  /\ startDisabled' = (Len(metaList') < 1)
  /\ UNCHANGED <<nextAssetId, uiPhase, panelSrc, opacity, replaceTimer, rafQueue,
                 pending, ticks, handed, everShown, lastCb, usedYaws, placed,
                 texture, loadErrs, unusedPool, refilledAt, meshes,
                 timerDelay, liveTimers, lateHandlers, probe>>

\* the second click: its handler runs after the first one and builds the panels anew
SecondStart ==
  /\ uiPhase = "entering"
  /\ lateHandlers < MaxLateHandlers
  /\ metaList # <<>>
  /\ lateHandlers' = lateHandlers + 1
  /\ status' = "preparing"
  /\ startDisabled' = TRUE
  /\ \E shuffled \in ShuffleWith(metaList, CatalogDraws) :
       /\ panelSrc' = InitialPanels(shuffled)
       /\ opacity' = [i \in 1..VISIBLE_PANELS |-> OpScale]
       /\ texture' = [i \in 1..VISIBLE_PANELS |-> "image"]
       /\ displayedSet' = Range(panelSrc')
       /\ everShown' = Range(panelSrc')
       /\ unusedSequencing' \in ShuffleArray(InitialUnused(metaList, displayedSet'))
       /\ \E stream \in OneStream :
            /\ placed' = PlacePanels(<<>>, stream, 0, VISIBLE_PANELS)
            /\ usedYaws' = [i \in 1..VISIBLE_PANELS |-> placed'[i].yawDeg]
  /\ UNCHANGED <<metaList, nextAssetId, uiPhase, replaceTimer, rafQueue, pending, ticks,
                 handed, lastCb, loadErrs, unusedPool, refilledAt, meshes,
                 timerDelay, liveTimers, removed, probe>>

\* the second handler's scene.enterVR() resolved, after the first handler's
LateEnterVROk ==
  /\ lateHandlers > 0
  /\ uiPhase # "entering"
  /\ lateHandlers' = lateHandlers - 1
  /\ SetTimer(Num(50))
  /\ UNCHANGED <<metaList, nextAssetId, startDisabled, uiPhase, panelSrc, opacity,
                 displayedSet, unusedSequencing, rafQueue, pending, ticks,
                 handed, everShown, lastCb, usedYaws, placed,
                 texture, loadErrs, unusedPool, refilledAt, meshes, removed>>

\* the second handler's scene.enterVR() rejected: the controls come back
LateEnterVRFail ==
  /\ lateHandlers > 0
  /\ uiPhase # "entering"
  /\ lateHandlers' = lateHandlers - 1
  /\ uiPhase' = "controls"
  /\ startDisabled' = FALSE
  /\ UNCHANGED <<metaList, nextAssetId, panelSrc, opacity, displayedSet,
                 unusedSequencing, replaceTimer, rafQueue, pending, ticks,
                 handed, everShown, lastCb, usedYaws, placed, status,
                 texture, loadErrs, unusedPool, refilledAt, meshes,
                 timerDelay, liveTimers, removed, probe>>

\* the timers alone: starts, second starts and VR entries of either outcome
TimerNext ==
  \/ AddImage
  \/ StartClick
  \/ SecondStart
  \/ EnterVROk
  \/ EnterVRFail
  \/ LateEnterVROk
  \/ LateEnterVRFail
  \/ BeforeUnload

TimerSpec == Init /\ [][TimerNext]_vars

\* the catalog alone: files added and images removed before any start
CatalogNext ==
  \/ AddImage
  \/ RemoveImage

CatalogSpec == Init /\ [][CatalogNext]_vars

\* images removed while the slideshow runs: the catalog is chosen and started
\* once, the first handler enters VR and sets the timer, the second one fails
\* and brings the controls back
AddImageBeforeStart == panelSrc = <<>> /\ AddImage
StartFirst == panelSrc = <<>> /\ StartClick

RemoveNext ==
  \/ AddImageBeforeStart
  \/ RemoveImage
  \/ StartFirst
  \/ SecondStart
  \/ EnterVROk
  \/ LateEnterVRFail
  \/ Tick
  \/ FrameBegin
  \/ FadeOutFrame
  \/ FadeInFrame

RemoveSpec == Init /\ [][RemoveNext]_vars

\* ------------------------------------------------ the pure helpers alone
\* every variable but probe
programVars ==
  <<metaList, nextAssetId, startDisabled, uiPhase, panelSrc, opacity,
    displayedSet, unusedSequencing, replaceTimer, rafQueue, pending,
    ticks, handed, everShown, lastCb, usedYaws, placed, status,
    texture, loadErrs, unusedPool, refilledAt, meshes,
    timerDelay, liveTimers, lateHandlers, removed>>

\* the yaws the separation test is probed with: every whole degree of [0, 360)
ProbeYaws == 0..359

\* the separation test computes `diff` for a candidate yaw and a used yaw
ProbeDiff ==
  /\ probe.fn = "none"
  /\ \E a \in ProbeYaws, b \in ProbeYaws :
       probe' = [fn |-> "diff", a |-> a, b |-> b,
                 result |-> Diff(a, b), swapped |-> Diff(b, a)]
  /\ UNCHANGED programVars

DiffNext == ProbeDiff

DiffSpec == Init /\ [][DiffNext]_vars

\* the arrays shuffleArray is probed with: up to MaxShuffleLen entries, repeated
\* entries included
MaxShuffleLen == 4
ProbeValues == {0, 1, 2}
ProbeArrays == UNION {[1..n -> ProbeValues] : n \in 0..MaxShuffleLen}

\* shuffleArray runs on an array, with any random choices
ProbeShuffle ==
  /\ probe.fn = "none"
  /\ \E arr \in ProbeArrays :
       \E out \in ShuffleArray(arr) :
         probe' = [fn |-> "shuffle", arr |-> arr, result |-> out]
  /\ UNCHANGED programVars

ShuffleNext == ProbeShuffle

ShuffleSpec == Init /\ [][ShuffleNext]_vars

\* ------------------------------------------- the slideshow running for ever
\* The same program with no bound on the number of ticks and without the
\* history variables, under the fairness its scheduling gives:
\*  - the interval timer keeps firing and animation frames keep arriving, and
\*    every callback of a frame runs (weak fairness of each step);
\*  - Math.random() is fair: an order of unusedSequencing that a swap can
\*    produce again and again is eventually produced (strong fairness of the
\*    swap that leaves an image not shown so far at the head of the pool).
TickLive == TickStep(FALSE)
FadeOutLive == FadeOutStep(FALSE, {"ok"})
FadeInLive == FadeInStep(FALSE)
SwapLeavesNewAtHead ==
  FadeOutLive /\ unusedSequencing' # <<>> /\ Head(unusedSequencing') \notin everShown'

LiveNext ==
  \/ AddImage
  \/ StartClick
  \/ EnterVROk
  \/ EnterVRFail
  \/ TickLive
  \/ FrameBegin
  \/ FadeOutLive
  \/ FadeInLive

LiveSpec ==
  /\ Init
  /\ [][LiveNext]_vars
  /\ WF_vars(TickLive)
  /\ WF_vars(FrameBegin)
  /\ WF_vars(FadeOutLive)
  /\ WF_vars(FadeInLive)
  /\ SF_vars(SwapLeavesNewAtHead)

\* ================================================================== claims
\* buildPanels has run on the present catalog and the panels are in place
\* (while the controls are shown the catalog can still change)
Built == Len(panelSrc) = VISIBLE_PANELS /\ uiPhase # "controls"
CatalogSize == Len(metaList)
Distinct(s) == \A i, j \in 1..Len(s) : i # j => s[i] # s[j]
\* the fade loops alive on panel p: registered for the next frame or still to run in this one
LoopsOn(p) == {i \in 1..Len(rafQueue) : rafQueue[i].panel = p}
FrameLoopsOn(p) == {i \in 1..Len(pending) : pending[i].panel = p}
NumLoopsOn(p) == Cardinality(LoopsOn(p)) + Cardinality(FrameLoopsOn(p))
NumFadeInsOn(q, fr, p) ==
  Cardinality({i \in 1..Len(q) : q[i].panel = p /\ q[i].kind = "in"})
  + Cardinality({i \in 1..Len(fr) : fr[i].panel = p /\ fr[i].kind = "in"})

\* C1: with a catalog of at least 8 images (8 included), after buildPanels and
\* after any completed swaps no two of the 8 panels show the same image id.
C1_NoDuplicatePanels ==
  (Built /\ CatalogSize >= VISIBLE_PANELS) => Distinct(panelSrc)

\* C2: for a catalog of at least 8 images buildPanels creates 8 panels with
\* pairwise distinct image ids, and displayedSet holds exactly those 8 ids.
C2_InitialUnique ==
  (uiPhase = "entering" /\ CatalogSize >= VISIBLE_PANELS) =>
    /\ Len(panelSrc) = VISIBLE_PANELS
    /\ Distinct(panelSrc)
    /\ displayedSet = Range(panelSrc)
    /\ Cardinality(displayedSet) = VISIBLE_PANELS
    /\ displayedSet \subseteq Range(metaList)

C2_Witness ==
  /\ uiPhase = "entering"
  /\ CatalogSize > VISIBLE_PANELS
  /\ panelSrc # SubSeq(metaList, 1, VISIBLE_PANELS)

C5_DisplayedHasV ==
  (Built /\ CatalogSize >= VISIBLE_PANELS) => Cardinality(displayedSet) = VISIBLE_PANELS

\* C6: after buildPanels and after every completed swap each catalog image is
\* in displayedSet or in unusedSequencing: no replacement drops an image.
C6_NoImageDropped ==
  Built => Range(metaList) \subseteq (displayedSet \cup Range(unusedSequencing))

C6_Witness ==
  /\ Built
  /\ lastCb.swapped
  /\ lastCb.old # lastCb.new
  /\ lastCb.old \in Range(unusedSequencing)
  /\ Len(handed) >= 2

\* C7: a tick that selects a panel in the middle of a transition starts no
\* second fade on it: at most one fade loop is alive on a panel at any time.
C7_OneLoopPerPanel ==
  \A p \in 1..Len(panelSrc) : NumLoopsOn(p) <= 1

\* C8: in a running slideshow a panel's image is swapped, and a fade-in is
\* started on it, only by the fadeOut callback that has reached the end of the
\* fade (t >= 1) and has just written opacity 0 to that panel.
C8_SwapAfterFadeOut ==
  [][ (uiPhase = "vr" /\ Len(panelSrc') = Len(panelSrc)) =>
        \A p \in 1..Len(panelSrc) :
          (\/ panelSrc'[p] # panelSrc[p]
           \/ NumFadeInsOn(rafQueue', pending', p) > NumFadeInsOn(rafQueue, pending, p))
          => /\ lastCb'.kind = "out"
             /\ lastCb'.panel = p
             /\ lastCb'.swapped
             /\ lastCb'.el >= FADE_MS
             /\ lastCb'.wrote = 0
             /\ opacity'[p] = 0 ]_vars

C8_Witness ==
  /\ lastCb.swapped
  /\ lastCb.old # lastCb.new
  /\ panelSrc[lastCb.panel] = lastCb.new
  /\ NumLoopsOn(lastCb.panel) >= 2

\* C9: every opacity fadeOut or fadeIn writes lies in [0, 1], whatever the
\* frame timestamps (at or after the start of the fade) and the starting opacity.
C9_OpacityBounds ==
  /\ \A p \in 1..Len(opacity) : opacity[p] >= 0 /\ opacity[p] <= OpScale
  /\ lastCb.wrote >= 0 /\ lastCb.wrote <= OpScale
  /\ \A i \in 1..Len(rafQueue) : rafQueue[i].from >= 0 /\ rafQueue[i].from <= OpScale

C9_Witness ==
  /\ lastCb.kind = "out"
  /\ lastCb.el > FADE_MS
  /\ lastCb.wrote = 0
  /\ lastCb.from \notin {0, OpScale}

\* C10: for a catalog of M images, 1 <= M < 8, buildPanels creates 8 panels in
\* which every catalog image appears floor(8/M) or ceil(8/M) times.
C10_FairDuplication ==
  (uiPhase = "entering" /\ CatalogSize >= 1 /\ CatalogSize < VISIBLE_PANELS) =>
    /\ Len(panelSrc) = VISIBLE_PANELS
    /\ \A id \in Range(metaList) :
         Count(panelSrc, id) \in {VISIBLE_PANELS \div CatalogSize,
                                  (VISIBLE_PANELS + CatalogSize - 1) \div CatalogSize}

C10_Witness ==
  /\ uiPhase = "entering"
  /\ CatalogSize = 3
  /\ Count(panelSrc, panelSrc[1]) = 3
  /\ Count(panelSrc, panelSrc[3]) = 2

\* the step in which a fadeOut callback swaps the image of its panel
SwapStep == lastCb'.swapped /\ handed' # handed
NumFadeOuts(q, fr) ==
  Cardinality({i \in 1..Len(q) : q[i].kind = "out"})
  + Cardinality({i \in 1..Len(fr) : fr[i].kind = "out"})
\* the shortest distance of two yaws on the circle, in degrees
ShortestDist(a, b) == Min((a - b) % 360, (b - a) % 360)
PanelsPlaced == 1..Len(placed)
NoFallback == \A p \in PanelsPlaced : ~placed[p].fallback

\* C11: at the swap the old image is released (removed from displayedSet and
\* re-queued in unusedSequencing) before the next image is drawn: the draw,
\* which reads the state the swap starts from, finds the old image in the pool
\* and outside displayedSet.
C11_ReleaseBeforeDraw ==
  [][ SwapStep =>
        /\ lastCb'.old \notin displayedSet
        /\ lastCb'.old \in Range(unusedSequencing) ]_vars

C13_YawDrawsBounded ==
  /\ Len(usedYaws) = Len(placed)
  /\ Built => Len(placed) = VISIBLE_PANELS
  /\ \A p \in PanelsPlaced :
       /\ placed[p].draws >= 1
       /\ placed[p].draws <= maxAttempts + 1
       /\ ~placed[p].fallback => placed[p].draws <= maxAttempts
       /\ placed[p].fallback => placed[p].draws = maxAttempts + 1

C13_Witness ==
  /\ \E p \in PanelsPlaced : placed[p].fallback /\ placed[p].draws = maxAttempts + 1
  /\ \E p \in PanelsPlaced : ~placed[p].fallback /\ placed[p].draws = maxAttempts

\* C14: a yaw accepted inside the attempt loop is at least 28 degrees (wrapped
\* shortest distance) from every yaw pushed before it; hence, if no panel of the
\* build used the fallback, the yaws in usedYaws are pairwise 28 degrees apart.
C14_AcceptedSeparated ==
  /\ \A p \in PanelsPlaced :
       ~placed[p].fallback =>
         \A q \in 1..(p - 1) :
           ShortestDist(usedYaws[p], usedYaws[q]) >= MIN_ANGULAR_SEPARATION_DEG
  /\ NoFallback =>
       \A p, q \in PanelsPlaced :
         p # q => ShortestDist(usedYaws[p], usedYaws[q]) >= MIN_ANGULAR_SEPARATION_DEG

C14_Witness ==
  /\ Len(usedYaws) = VISIBLE_PANELS
  /\ NoFallback
  /\ Cardinality({p \in PanelsPlaced : placed[p].draws > 1}) >= 2

\* C15: when every attempt fails the separation test, the yaw returned and
\* pushed onto usedYaws is the last candidate drawn inside the attempt loop.
C15_FallbackIsLastCandidate ==
  \A p \in PanelsPlaced : placed[p].fallback => usedYaws[p] = placed[p].last

\* C16: when the attempt budget is exhausted the panel is still placed and the
\* state records that its separation was not guaranteed.  usedYaws is all that
\* chooseSeparatedYaw writes, so the record exists only if the state it leaves
\* is one that no accepted placement leaves: the yaw breaks the separation.
C16_DegradedRecorded ==
  \A p \in PanelsPlaced :
    placed[p].fallback =>
      /\ Len(placed) = VISIBLE_PANELS
      /\ ~Separated(usedYaws[p], SubSeq(usedYaws, 1, p - 1))

\* C17: every elevation positionFromAngles returns lies in [-25, +25] degrees,
\* for the panels placed by the fallback too.
C17_ElevationInBand ==
  \A p \in PanelsPlaced :
    /\ placed[p].elevationDeg >= -BAND_ELEVATION_DEG
    /\ placed[p].elevationDeg <= BAND_ELEVATION_DEG

C17_Witness ==
  /\ \E p \in PanelsPlaced : placed[p].fallback /\ placed[p].elevationDeg = -BAND_ELEVATION_DEG
  /\ \E p \in PanelsPlaced : placed[p].elevationDeg = BAND_ELEVATION_DEG - 1

\* C18: a start click with an empty catalog reports the error and goes no
\* further: no panel is built, no timer is started, panelEntities, displayedSet
\* and unusedSequencing stay as they are, and the start button is enabled again.
C18_EmptyCatalogStart ==
  [][ (StartClick /\ metaList = <<>>) =>
        /\ status' = "selectFirst"
        /\ ~startDisabled'
        /\ uiPhase' = "controls"
        /\ ~replaceTimer'
        /\ UNCHANGED <<panelSrc, opacity, displayedSet, unusedSequencing, usedYaws,
                       placed, replaceTimer, rafQueue, pending>> ]_vars

C18_Witness ==
  /\ status = "selectFirst"
  /\ metaList = <<>>
  /\ ~startDisabled
  /\ uiPhase = "controls"
  /\ panelSrc = <<>>

\* C19: the replacement timer is started only when entering VR has succeeded;
\* when scene.enterVR fails no tick fires for that start, the controls are shown
\* again and the start button is enabled again.
C19_TimerOnlyAfterVR ==
  [][ /\ (uiPhase = "entering" /\ uiPhase' = "controls") =>
           ~replaceTimer' /\ ~startDisabled'
      /\ (replaceTimer' /\ ~replaceTimer) => (uiPhase = "entering" /\ uiPhase' = "vr")
      /\ ticks' # ticks => (uiPhase = "vr" /\ replaceTimer)
      /\ uiPhase' # "vr" => ~replaceTimer' ]_vars

C19_Witness ==
  /\ uiPhase = "controls"
  /\ Len(panelSrc) = VISIBLE_PANELS
  /\ status = "preparing"
  /\ ~startDisabled
  /\ ~replaceTimer
  /\ ticks = 0

\* C20: once the replacement timer is cancelled no new fade-out starts on any
\* panel, and the cancellation neither rolls back nor interrupts a transition
\* in flight: its callbacks stay registered and go on to the swap and fade-in.
C20_CancelKeepsTransitions ==
  [][ /\ ~replaceTimer =>
           /\ ticks' = ticks
           /\ NumFadeOuts(rafQueue', pending') <= NumFadeOuts(rafQueue, pending)
      /\ (replaceTimer /\ ~replaceTimer') =>
           UNCHANGED <<rafQueue, pending, opacity, panelSrc, displayedSet,
                       unusedSequencing>> ]_vars

C20_Witness ==
  /\ ~replaceTimer
  /\ uiPhase = "vr"
  /\ lastCb.kind = "out"
  /\ lastCb.swapped
  /\ rafQueue # <<>>

\* C22: after a start with a non-empty catalog, of fewer than 8 images too,
\* exactly 8 panels exist (with their opacity, texture and placement), and the
\* number stays 8 whatever replacement ticks and fade callbacks follow.
C22_EightPanels ==
  (uiPhase # "controls" /\ metaList # <<>>) =>
    /\ Len(panelSrc) = VISIBLE_PANELS
    /\ Len(opacity) = VISIBLE_PANELS
    /\ Len(placed) = VISIBLE_PANELS
C22_Witness ==
  /\ uiPhase = "vr" /\ CatalogSize = 3 /\ Len(handed) >= 2
  /\ Len(panelSrc) = VISIBLE_PANELS

\* C23: with more than 8 images, the first swap after buildPanels puts on its
\* panel an image that none of the 8 panels showed before it, and the panels
\* then show 8 distinct ids.
C23_FirstSwapShowsNew ==
  [][(CatalogSize > VISIBLE_PANELS /\ handed = <<>> /\ SwapStep) =>
       /\ lastCb'.new \notin Range(panelSrc)
       /\ panelSrc'[lastCb'.panel] = lastCb'.new
       /\ Len(panelSrc') = VISIBLE_PANELS
       /\ Distinct(panelSrc')]_vars
C23_Witness ==
  /\ CatalogSize > VISIBLE_PANELS /\ Len(handed) = 1 /\ lastCb.swapped
  /\ panelSrc[lastCb.panel] = handed[1] /\ Distinct(panelSrc)

\* C27: once the panels are built, an id is in displayedSet if and only if at
\* least one panel shows it.
C27_DisplayedIsShown == Built => displayedSet = Range(panelSrc)

\* C28: once the panels are built, unusedSequencing holds only images that no
\* panel shows, and holds no image twice.
C28_PoolHoldsUnshown ==
  Built => /\ Range(unusedSequencing) \cap Range(panelSrc) = {}
           /\ Distinct(unusedSequencing)

\* C30: while the slideshow runs, a step changes the image or the opacity of a
\* panel only if it is a fade callback of that panel; the number of panels and
\* every panel's placement (position and rotation) never change.
C30_OnlySelectedPanel ==
  [][uiPhase = "vr" =>
       /\ placed' = placed /\ usedYaws' = usedYaws
       /\ Len(panelSrc') = Len(panelSrc) /\ Len(opacity') = Len(opacity)
       /\ \A q \in 1..Len(panelSrc) :
            (panelSrc'[q] # panelSrc[q] \/ opacity'[q] # opacity[q]) =>
              (pending # <<>> /\ Head(pending).panel = q)]_vars
C30_Witness ==
  /\ uiPhase = "vr" /\ lastCb.swapped /\ lastCb.new # lastCb.old
  /\ panelSrc[lastCb.panel] = lastCb.new
  /\ \E q \in 1..Len(opacity) : q # lastCb.panel /\ opacity[q] < OpScale

NumFadeOutsOn(p) ==
  Cardinality({i \in 1..Len(rafQueue) : rafQueue[i].panel = p /\ rafQueue[i].kind = "out"})
  + Cardinality({i \in 1..Len(pending) : pending[i].panel = p /\ pending[i].kind = "out"})

\* the panels a tick can select with the values Math.random() takes here
TickPanels == {RandIndex(k, VISIBLE_PANELS) + 1 : k \in Rand}

FailedLoadStep == SwapStep /\ Len(loadErrs') > Len(loadErrs)

Cycle == SubSeq(handed, refilledAt + 1, Len(handed))
\* the tick of this step refilled the pool
RefillStep == uiPhase = "vr" /\ Len(unusedPool') > Len(unusedPool)

GeomArgs(data) ==
  <<data.width, data.height, data.curvature, data.segmentsW, data.segmentsH>>

\* C25: a geometry built with curvature 0 is the flat grid: every vertex has
\* the x and y PlaneGeometry gave it and z = 0.
C25_FlatAtZeroCurvature ==
  \A m \in 1..Len(meshes) :
    meshes[m].data.curvature = 0 =>
      LET d == meshes[m].data
          flat == PlaneGeometry(d.width, d.height, SegW(d), SegH(d))
      IN /\ Len(meshes[m].verts) = Len(flat)
         /\ \A i \in 1..Len(flat) :
              meshes[m].verts[i] = [x |-> flat[i].x, y |-> flat[i].y, z |-> 0]
C25_Witness ==
  \E m \in 1..Len(meshes) :
    /\ meshes[m].data.curvature = 0 /\ meshes[m].data.width = 1200
    /\ meshes[m].data.height = 800
    /\ \E i \in 1..Len(meshes[m].verts) : meshes[m].verts[i].x # 0

SwapIsNext ==
  pending # <<>> /\ Head(pending).kind = "out" /\ ~FadeContinues(Head(pending).el)

\* C31: in the unusedPool engine, whenever the swap step of a replacement is
\* about to run, unusedPool is non-empty, overlapping ticks included.
C31_PoolNonEmptyAtSwap == SwapIsNext => unusedPool # <<>>

\* C36: for whole-degree yaws a and b of [0, 360) the `diff` of the separation
\* test is the shortest distance on the circle, min(|a - b|, 360 - |a - b|),
\* and is the same with a and b exchanged.
C36_DiffIsCircularDistance ==
  probe.fn = "diff" =>
    /\ probe.result = Min(Abs(probe.a - probe.b), 360 - Abs(probe.a - probe.b))
    /\ probe.result = probe.swapped
C36_Witness ==
  /\ probe.fn = "diff" /\ probe.a = 350 /\ probe.b = 10 /\ probe.result = 20

\* C37: the array shuffleArray leaves has the length of the array it was given
\* and holds every value as many times, whatever the random choices.
C37_ShufflePermutes ==
  probe.fn = "shuffle" =>
    /\ Len(probe.result) = Len(probe.arr)
    /\ \A x \in ProbeValues : Count(probe.result, x) = Count(probe.arr, x)
C37_Witness ==
  /\ probe.fn = "shuffle" /\ Len(probe.arr) = MaxShuffleLen
  /\ probe.result # probe.arr /\ Count(probe.arr, 0) = 2

C32_RemovedNeverSelected ==
  /\ [](\A x \in removed :
          /\ x \notin Range(unusedSequencing)
          /\ x \notin displayedSet
          /\ x \notin Range(metaList))
  /\ [][SwapStep => lastCb'.new \notin removed]_vars
C32_Witness ==
  /\ lastCb.swapped /\ lastCb.old \in removed /\ lastCb.new # NoImage
  /\ panelSrc[lastCb.panel] = lastCb.new
  /\ \E q \in 1..Len(panelSrc) : panelSrc[q] \in removed

\* C33: at most one interval timer is live, whatever start clicks, failed and
\* successful VR entries came before; a live timer is the one replaceTimer holds.
C33_OneTimer ==
  /\ liveTimers <= 1
  /\ liveTimers = 1 => replaceTimer
C33_Witness ==
  /\ probe.fn = "interval" /\ probe.cleared /\ liveTimers = 1 /\ lateHandlers = 0

\* C34: the ids of the images in the catalog are pairwise different, none is
\* the id of a removed image, and an image that enters the catalog gets an id
\* that no image in the catalog or removed from it has had.
C34_IdsUnique ==
  /\ [](/\ Distinct(metaList)
        /\ Range(metaList) \cap removed = {}
        /\ \A x \in Range(metaList) \cup removed : x < nextAssetId)
  /\ [][\A x \in Range(metaList') \ Range(metaList) : x >= nextAssetId]_vars
C34_Witness ==
  /\ Cardinality(removed) = 2 /\ Len(metaList) >= 2
  /\ \A x \in removed : \A i \in 1..Len(metaList) : metaList[i] > x
====
